---- MODULE Spec2Model ----
(***************************************************************************)
(* Model of lapce-core's cursor navigation: the character classifier and   *)
(* boundary table (word.rs), the ModalWordCursor scans (word.rs) and the   *)
(* BracketCursor scans (bracket.rs).                                       *)
(*                                                                         *)
(* A text is a sequence of codepoints (1-indexed, text[k+1] is the         *)
(* codepoint at offset k); a cursor is an offset 0..Len(text).  All        *)
(* codepoints of the modelled texts are ASCII, so byte offsets (what       *)
(* xi_rope's Cursor::pos reports) and codepoint offsets coincide.          *)
(* Every scan loop is modelled one iteration per step.                     *)
(***************************************************************************)
EXTENDS Integers, Sequences, FiniteSets

VARIABLES
    text,       \* the rope the cursor borrows
    pos,        \* inner.pos(): the cursor's offset
    pc,         \* position of the running operation: idle, a loop label, done
    op,         \* the operation called on the cursor
    start,      \* offset of the cursor when the operation was called
    arg,        \* next_unmatched / previous_unmatched: the parameter c
    prop,       \* local `prop` of the word scans
    candidate,  \* local `candidate` of the word scans
    keep_word,  \* local `keep_word` of prev_deletion_boundary
    end,        \* local `end` of select_word
    n,          \* local `n` (nesting depth) of the unmatched scans
    ret,        \* the value the operation returned
    iters,      \* number of loop iterations the operation has executed
    last,       \* <<start, ret>> of the call before this one: a match_pairs before a
                \* match_pairs, a prev_boundary before a prev_deletion_boundary
    codepoint,  \* classifier: input of get_char_property
    cls,        \* classifier: its result
    bprev,      \* classifier: first input of classify_boundary
    bnext,      \* classifier: second input of classify_boundary
    bkind       \* classifier: its result

vars == <<text, pos, pc, op, start, arg, prop, candidate, keep_word, end, n,
          ret, iters, last, codepoint, cls, bprev, bnext, bkind>>

cursorVars == <<text, pos, pc, op, start, arg, prop, candidate, keep_word,
                end, n, ret, iters, last>>

classVars == <<codepoint, cls, bprev, bnext, bkind>>

----------------------------------------------------------------------------
(* Bounds *)

\* longest text of the word-cursor specification
MaxLen == 4

\* longest text of the bracket-cursor specification
MaxBracketLen == 4

\* longest text of the scan specification
MaxScanLen == 4

\* the classifier is run on every codepoint 0..MaxCodepoint and on samples beyond
MaxCodepoint == 300

----------------------------------------------------------------------------
(* Option values *)

None == <<"None">>

Some(x) == <<"Some", x>>

Pair(a, b) == <<"Pair", a, b>>

Pending == <<"Pending">>

IsSome(r) == r[1] = "Some"

----------------------------------------------------------------------------
(* CharClassification, get_char_property *)

CharClassification == {"Cr", "Lf", "Space", "Punctuation", "Other"}

\* 0xff00fffe00000000: the mask with the bits of '8' and '9' set as well
PunctMaskLow_digits == <<0, 0, 65534, 65280>>

\* 0xfc00fffe00000000 as 16-bit limbs, least significant first
PunctMaskLow == <<0, 0, 65534, 64512>>

\* 0x7800000178000001 as 16-bit limbs, least significant first
PunctMaskHigh == <<1, 30720, 1, 30720>>

\* (mask >> i) & 1 for a 64-bit mask and 0 <= i < 64
Bit(mask, i) == (mask[(i \div 16) + 1] \div (2 ^ (i % 16))) % 2

get_char_property(c) ==
    IF c <= 32
    THEN IF c = 13 THEN "Cr"
         ELSE IF c = 10 THEN "Lf"
         ELSE "Space"
    ELSE IF c <= 63
    THEN IF Bit(PunctMaskLow, c) # 0 THEN "Punctuation" ELSE "Other"
    ELSE IF c <= 127
    THEN IF Bit(PunctMaskHigh, c % 64) # 0 THEN "Punctuation" ELSE "Other"
    ELSE "Other"

----------------------------------------------------------------------------
(* WordBoundary, classify_boundary *)

WordBoundary == {"Interior", "Start", "End", "Both"}

\* classify_boundary with the arm (_, Cr) => End left out
classify_boundary_no_cr_arm(prev, next) ==
    IF prev = "Lf" /\ next = "Lf" THEN "Start"
    ELSE IF prev = "Lf" /\ next = "Space" THEN "Interior"
    ELSE IF prev = "Cr" /\ next = "Lf" THEN "Interior"
    ELSE IF prev = "Space" /\ next = "Lf" THEN "Interior"
    ELSE IF prev = "Space" /\ next = "Cr" THEN "Interior"
    ELSE IF prev = "Space" /\ next = "Space" THEN "Interior"
    ELSE IF next = "Space" THEN "End"
    ELSE IF prev = "Space" THEN "Start"
    ELSE IF prev = "Lf" THEN "Start"
    ELSE IF next = "Lf" THEN "End"
    ELSE IF prev = "Punctuation" /\ next = "Other" THEN "Both"
    ELSE IF prev = "Other" /\ next = "Punctuation" THEN "Both"
    ELSE "Interior"

\* the match arms in source order; the first arm that matches decides
classify_boundary(prev, next) ==
    IF prev = "Lf" /\ next = "Lf" THEN "Start"
    ELSE IF prev = "Lf" /\ next = "Space" THEN "Interior"
    ELSE IF prev = "Cr" /\ next = "Lf" THEN "Interior"
    ELSE IF prev = "Space" /\ next = "Lf" THEN "Interior"
    ELSE IF prev = "Space" /\ next = "Cr" THEN "Interior"
    ELSE IF prev = "Space" /\ next = "Space" THEN "Interior"
    ELSE IF next = "Space" THEN "End"
    ELSE IF prev = "Space" THEN "Start"
    ELSE IF prev = "Lf" THEN "Start"
    ELSE IF next = "Cr" THEN "End"
    ELSE IF next = "Lf" THEN "End"
    ELSE IF prev = "Punctuation" /\ next = "Other" THEN "Both"
    ELSE IF prev = "Other" /\ next = "Punctuation" THEN "Both"
    ELSE "Interior"

\* is_start without the Both case
is_start_only(b) == b = "Start"

is_start(b) == b = "Start" \/ b = "Both"

is_end(b) == b = "End" \/ b = "Both"

----------------------------------------------------------------------------
(* The classifier specification: the two pure functions applied to inputs  *)
(* drawn from bounded sets.                                                *)

Codepoints == (0 .. MaxCodepoint) \cup {945, 8232, 20013, 55295, 57344, 128512, 1114111}

NoClass == "-"

ClassInit ==
    /\ codepoint \in Codepoints
    /\ cls = NoClass
    /\ bprev \in CharClassification
    /\ bnext \in CharClassification
    /\ bkind = NoClass

\* a cursor on which no operation has been called yet
CursorFresh ==
    /\ pc = "idle"
    /\ op = "none"
    /\ start = 0
    /\ arg = 0
    /\ prop = NoClass
    /\ candidate = 0
    /\ keep_word = FALSE
    /\ end = 0
    /\ n = 0
    /\ ret = Pending
    /\ iters = 0
    /\ last = None

\* the classifier's variables where only a cursor is modelled
ClassUnused ==
    /\ codepoint = 0
    /\ cls = NoClass
    /\ bprev = "Other"
    /\ bnext = "Other"
    /\ bkind = NoClass

CursorIdle ==
    /\ text = <<>>
    /\ pos = 0
    /\ CursorFresh

InitClassify == ClassInit /\ CursorIdle

Classify ==
    /\ cls = NoClass
    /\ cls' = get_char_property(codepoint)
    /\ UNCHANGED <<codepoint, bprev, bnext, bkind>>
    /\ UNCHANGED cursorVars

ClassifyBoundary ==
    /\ bkind = NoClass
    /\ bkind' = classify_boundary(bprev, bnext)
    /\ UNCHANGED <<codepoint, cls, bprev, bnext>>
    /\ UNCHANGED cursorVars

NextClassify == Classify \/ ClassifyBoundary

SpecClassify == InitClassify /\ [][NextClassify]_vars

----------------------------------------------------------------------------
(* xi_rope's Cursor, as the scans use it (its interface: peek, consume     *)
(* forward, consume backward; a consume at either end of the text returns  *)
(* None and leaves the offset where it is).                                *)

\* peek_next_codepoint / next_codepoint return Some
HasNext(t, p) == p < Len(t)

\* the codepoint next_codepoint returns at offset p
NextChar(t, p) == t[p + 1]

\* prev_codepoint returns Some
HasPrev(p) == p > 0

\* the codepoint prev_codepoint returns at offset p
PrevChar(t, p) == t[p]

\* a plain usize result
Offset(x) == <<"Offset", x>>

classFrame == UNCHANGED classVars

----------------------------------------------------------------------------
(* ModalWordCursor *)

\* CR, LF, ' ', '.', 'a': one codepoint of each class
WordAlphabet == {13, 10, 32, 46, 97}

WordTexts == UNION {[1 .. k -> WordAlphabet] : k \in 0 .. MaxLen}

\* ModalWordCursor::new(text, pos) on an arbitrary text
InitWord ==
    /\ text \in WordTexts
    /\ pos \in 0 .. Len(text)
    /\ CursorFresh
    /\ ClassUnused

\* entry of an operation: the locals every call starts from
Enter(name) ==
    /\ pc = "idle"
    /\ op' = name
    /\ start' = pos
    /\ iters' = 0
    /\ last' = IF name = "prev_deletion_boundary" THEN last ELSE None
    /\ UNCHANGED <<text, arg>>
    /\ classFrame

\* a step inside an operation
Inside == UNCHANGED <<text, op, start, arg, last>> /\ classFrame

(* next_non_blank_char *)

next_non_blank_char_call ==
    /\ Enter("next_non_blank_char")
    /\ candidate' = pos
    /\ pc' = "next_non_blank_char_loop"
    /\ UNCHANGED <<pos, prop, keep_word, end, n, ret>>

next_non_blank_char_step ==
    /\ pc = "next_non_blank_char_loop"
    /\ Inside
    /\ IF HasNext(text, pos)
       THEN /\ pos' = pos + 1
            /\ iters' = iters + 1
            /\ prop' = get_char_property(NextChar(text, pos))
            /\ IF prop' # "Space"
               THEN pc' = "next_non_blank_char_ret" /\ UNCHANGED candidate
               ELSE pc' = pc /\ candidate' = pos'
       ELSE /\ pc' = "next_non_blank_char_ret"
            /\ UNCHANGED <<pos, iters, prop, candidate>>
    /\ UNCHANGED <<keep_word, end, n, ret>>

next_non_blank_char_ret ==
    /\ pc = "next_non_blank_char_ret"
    /\ Inside
    /\ pos' = candidate
    /\ ret' = Offset(candidate)
    /\ pc' = "done"
    /\ UNCHANGED <<prop, candidate, keep_word, end, n, iters>>

(* next_boundary *)

next_boundary_call ==
    /\ Enter("next_boundary")
    /\ IF HasNext(text, pos)
       THEN /\ prop' = get_char_property(NextChar(text, pos))
            /\ pos' = pos + 1
            /\ candidate' = pos'
            /\ pc' = "next_boundary_loop"
            /\ UNCHANGED ret
       ELSE /\ ret' = None
            /\ pc' = "done"
            /\ UNCHANGED <<pos, prop, candidate>>
    /\ UNCHANGED <<keep_word, end, n>>

next_boundary_step ==
    /\ pc = "next_boundary_loop"
    /\ Inside
    /\ IF HasNext(text, pos)
       THEN LET prop_next == get_char_property(NextChar(text, pos)) IN
            /\ pos' = pos + 1
            /\ iters' = iters + 1
            /\ IF is_start(classify_boundary(prop, prop_next))
               THEN pc' = "next_boundary_ret" /\ UNCHANGED <<prop, candidate>>
               ELSE pc' = pc /\ prop' = prop_next /\ candidate' = pos'
       ELSE /\ pc' = "next_boundary_ret"
            /\ UNCHANGED <<pos, iters, prop, candidate>>
    /\ UNCHANGED <<keep_word, end, n, ret>>

\* next_boundary returning the offset the scan reached, not the candidate
next_boundary_ret_reached ==
    /\ pc = "next_boundary_ret"
    /\ Inside
    /\ ret' = Some(pos)
    /\ pc' = "done"
    /\ UNCHANGED <<pos, prop, candidate, keep_word, end, n, iters>>

next_boundary_ret ==
    /\ pc = "next_boundary_ret"
    /\ Inside
    /\ pos' = candidate
    /\ ret' = Some(candidate)
    /\ pc' = "done"
    /\ UNCHANGED <<prop, candidate, keep_word, end, n, iters>>

(* end_boundary *)

end_boundary_call ==
    /\ Enter("end_boundary")
    /\ LET p1 == IF HasNext(text, pos) THEN pos + 1 ELSE pos IN
       IF HasNext(text, p1)
       THEN /\ prop' = get_char_property(NextChar(text, p1))
            /\ pos' = p1 + 1
            /\ candidate' = pos'
            /\ pc' = "end_boundary_loop"
            /\ UNCHANGED ret
       ELSE /\ ret' = None
            /\ pc' = "done"
            /\ pos' = p1
            /\ UNCHANGED <<prop, candidate>>
    /\ UNCHANGED <<keep_word, end, n>>

end_boundary_step ==
    /\ pc = "end_boundary_loop"
    /\ Inside
    /\ IF HasNext(text, pos)
       THEN LET prop_next == get_char_property(NextChar(text, pos)) IN
            /\ pos' = pos + 1
            /\ iters' = iters + 1
            /\ IF is_end(classify_boundary(prop, prop_next))
               THEN pc' = "end_boundary_ret" /\ UNCHANGED <<prop, candidate>>
               ELSE pc' = pc /\ prop' = prop_next /\ candidate' = pos'
       ELSE /\ pc' = "end_boundary_ret"
            /\ UNCHANGED <<pos, iters, prop, candidate>>
    /\ UNCHANGED <<keep_word, end, n, ret>>

end_boundary_ret ==
    /\ pc = "end_boundary_ret"
    /\ Inside
    /\ pos' = candidate
    /\ ret' = Some(candidate)
    /\ pc' = "done"
    /\ UNCHANGED <<prop, candidate, keep_word, end, n, iters>>

(* prev_boundary *)

prev_boundary_call ==
    /\ Enter("prev_boundary")
    /\ IF HasPrev(pos)
       THEN /\ prop' = get_char_property(PrevChar(text, pos))
            /\ pos' = pos - 1
            /\ candidate' = pos'
            /\ pc' = "prev_boundary_loop"
            /\ UNCHANGED ret
       ELSE /\ ret' = None
            /\ pc' = "done"
            /\ UNCHANGED <<pos, prop, candidate>>
    /\ UNCHANGED <<keep_word, end, n>>

prev_boundary_step ==
    /\ pc = "prev_boundary_loop"
    /\ Inside
    /\ IF HasPrev(pos)
       THEN LET prop_prev == get_char_property(PrevChar(text, pos)) IN
            /\ pos' = pos - 1
            /\ iters' = iters + 1
            /\ IF is_start(classify_boundary(prop_prev, prop))
               THEN pc' = "prev_boundary_ret" /\ UNCHANGED <<prop, candidate>>
               ELSE pc' = pc /\ prop' = prop_prev /\ candidate' = pos'
       ELSE /\ pc' = "prev_boundary_ret"
            /\ UNCHANGED <<pos, iters, prop, candidate>>
    /\ UNCHANGED <<keep_word, end, n, ret>>

prev_boundary_ret ==
    /\ pc = "prev_boundary_ret"
    /\ Inside
    /\ pos' = candidate
    /\ ret' = Some(candidate)
    /\ pc' = "done"
    /\ UNCHANGED <<prop, candidate, keep_word, end, n, iters>>

(* prev_code_boundary, next_code_boundary, select_word *)

\* select_word without the reset of the cursor between its two scans
select_word_no_reset(initial, p) == p

\* select_word: self.inner.set(initial) between the two scans
select_word_reset(initial, p) == initial

prev_code_boundary_call ==
    /\ Enter("prev_code_boundary")
    /\ candidate' = pos
    /\ pc' = "prev_code_boundary_loop"
    /\ UNCHANGED <<pos, prop, keep_word, end, n, ret>>

prev_code_boundary_step ==
    /\ pc = "prev_code_boundary_loop"
    /\ Inside
    /\ IF HasPrev(pos)
       THEN /\ pos' = pos - 1
            /\ iters' = iters + 1
            /\ prop' = get_char_property(PrevChar(text, pos))
            /\ IF prop' # "Other"
               THEN pc' = "prev_code_boundary_ret" /\ UNCHANGED candidate
               ELSE pc' = pc /\ candidate' = pos'
       ELSE /\ pc' = "prev_code_boundary_ret"
            /\ UNCHANGED <<pos, iters, prop, candidate>>
    /\ UNCHANGED <<keep_word, end, n, ret>>

\* returns candidate; the cursor is left where the scan stopped.  Called from
\* select_word, the value is `start` and select_word returns (start, end).
prev_code_boundary_ret ==
    /\ pc = "prev_code_boundary_ret"
    /\ Inside
    /\ ret' = IF op = "select_word" THEN Pair(candidate, end) ELSE Offset(candidate)
    /\ pc' = "done"
    /\ UNCHANGED <<pos, prop, candidate, keep_word, end, n, iters>>

next_code_boundary_call ==
    /\ Enter("next_code_boundary")
    /\ candidate' = pos
    /\ pc' = "next_code_boundary_loop"
    /\ UNCHANGED <<pos, prop, keep_word, end, n, ret>>

next_code_boundary_step ==
    /\ pc = "next_code_boundary_loop"
    /\ Inside
    /\ IF HasNext(text, pos)
       THEN /\ pos' = pos + 1
            /\ iters' = iters + 1
            /\ prop' = get_char_property(NextChar(text, pos))
            /\ IF prop' # "Other"
               THEN pc' = "next_code_boundary_ret" /\ UNCHANGED candidate
               ELSE pc' = pc /\ candidate' = pos'
       ELSE /\ pc' = "next_code_boundary_ret"
            /\ UNCHANGED <<pos, iters, prop, candidate>>
    /\ UNCHANGED <<keep_word, end, n, ret>>

\* returns candidate; the cursor is left where the scan stopped.  Called from
\* select_word, the value is `end`; select_word then resets the cursor to
\* `initial` and enters prev_code_boundary.
next_code_boundary_ret ==
    /\ pc = "next_code_boundary_ret"
    /\ Inside
    /\ IF op = "select_word"
       THEN /\ end' = candidate
            /\ pos' = select_word_reset(start, pos)
            /\ candidate' = pos'
            /\ pc' = "prev_code_boundary_loop"
            /\ UNCHANGED ret
       ELSE /\ ret' = Offset(candidate)
            /\ pc' = "done"
            /\ UNCHANGED <<pos, candidate, end>>
    /\ UNCHANGED <<prop, keep_word, n, iters>>

\* let initial = self.inner.pos(); let end = self.next_code_boundary(); ...
select_word_call ==
    /\ Enter("select_word")
    /\ candidate' = pos
    /\ pc' = "next_code_boundary_loop"
    /\ UNCHANGED <<pos, prop, keep_word, end, n, ret>>

(* prev_deletion_boundary *)

\* the line-break rule with the CR case forgotten
line_break_found_lf_only(p) == p = "Lf"

\* "Line break found": prop == Lf || prop == Cr
line_break_found(p) == p = "Lf" \/ p = "Cr"

\* "More than a single whitespace"
more_than_a_single_whitespace(p, prop_prev) == p = "Space" /\ prop_prev = "Space"

\* "Stop if line beginning reached, without any non-whitespace characters"
line_beginning_reached(p, prop_prev) == prop_prev = "Lf" /\ p = "Space"

\* keep_word after the two rules that set it
keep_word_after(kw, p, prop_prev) ==
    kw \/ more_than_a_single_whitespace(p, prop_prev) \/ line_break_found(p)

\* "Skip word deletion if above conditions were met"
skip_word_deletion(kw, prop_prev) ==
    kw /\ (prop_prev = "Punctuation" \/ prop_prev = "Other")

prev_deletion_boundary_call ==
    /\ Enter("prev_deletion_boundary")
    /\ IF HasPrev(pos)
       THEN /\ prop' = get_char_property(PrevChar(text, pos))
            /\ pos' = pos - 1
            /\ candidate' = pos'
            /\ keep_word' = FALSE
            /\ pc' = "prev_deletion_boundary_loop"
            /\ UNCHANGED ret
       ELSE /\ ret' = None
            /\ pc' = "done"
            /\ UNCHANGED <<pos, prop, candidate, keep_word>>
    /\ UNCHANGED <<end, n>>

prev_deletion_boundary_step ==
    /\ pc = "prev_deletion_boundary_loop"
    /\ Inside
    /\ IF HasPrev(pos)
       THEN LET prop_prev == get_char_property(PrevChar(text, pos))
                kw == keep_word_after(keep_word, prop, prop_prev)
            IN
            /\ pos' = pos - 1
            /\ iters' = iters + 1
            /\ IF line_beginning_reached(prop, prop_prev)
               THEN /\ pc' = "prev_deletion_boundary_ret"
                    /\ UNCHANGED <<prop, candidate, keep_word>>
               ELSE IF skip_word_deletion(kw, prop_prev)
                       \/ is_start(classify_boundary(prop_prev, prop))
               THEN /\ pc' = "prev_deletion_boundary_ret"
                    /\ keep_word' = kw
                    /\ UNCHANGED <<prop, candidate>>
               ELSE /\ pc' = pc
                    /\ keep_word' = kw
                    /\ prop' = prop_prev
                    /\ candidate' = pos'
       ELSE /\ pc' = "prev_deletion_boundary_ret"
            /\ UNCHANGED <<pos, iters, prop, candidate, keep_word>>
    /\ UNCHANGED <<end, n, ret>>

\* prev_deletion_boundary returning the offset the scan reached, not the candidate
prev_deletion_boundary_ret_reached ==
    /\ pc = "prev_deletion_boundary_ret"
    /\ Inside
    /\ ret' = Some(pos)
    /\ pc' = "done"
    /\ UNCHANGED <<pos, prop, candidate, keep_word, end, n, iters>>

prev_deletion_boundary_ret ==
    /\ pc = "prev_deletion_boundary_ret"
    /\ Inside
    /\ pos' = candidate
    /\ ret' = Some(candidate)
    /\ pc' = "done"
    /\ UNCHANGED <<prop, candidate, keep_word, end, n, iters>>

(* The word-cursor specification *)

\* the cursor is dropped and ModalWordCursor::new(text, p) makes a fresh one
\* `last` remembers the call that just completed when it was prev_boundary
new_word_cursor ==
    /\ pc = "done"
    /\ pos' \in 0 .. Len(text)
    /\ pc' = "idle"
    /\ op' = "none"
    /\ start' = 0
    /\ prop' = NoClass
    /\ candidate' = 0
    /\ keep_word' = FALSE
    /\ end' = 0
    /\ ret' = Pending
    /\ iters' = 0
    /\ last' = IF op = "prev_boundary" THEN <<start, ret>> ELSE None
    /\ UNCHANGED <<text, arg, n>>
    /\ classFrame

WordOps ==
    \/ next_non_blank_char_call
    \/ next_non_blank_char_step
    \/ next_non_blank_char_ret
    \/ next_boundary_call
    \/ next_boundary_step
    \/ next_boundary_ret
    \/ end_boundary_call
    \/ end_boundary_step
    \/ end_boundary_ret
    \/ prev_boundary_call
    \/ prev_boundary_step
    \/ prev_boundary_ret
    \/ prev_code_boundary_call
    \/ prev_code_boundary_step
    \/ prev_code_boundary_ret
    \/ next_code_boundary_call
    \/ next_code_boundary_step
    \/ next_code_boundary_ret
    \/ select_word_call
    \/ prev_deletion_boundary_call
    \/ prev_deletion_boundary_step
    \/ prev_deletion_boundary_ret

NextWord == WordOps \/ new_word_cursor

Spec == InitWord /\ [][NextWord]_vars

----------------------------------------------------------------------------
(* The delimiter table of crate::syntax::util *)

\* '(' ')' '[' ']' '{' '}'
matching_char(c) ==
    IF c = 40 THEN Some(41)
    ELSE IF c = 41 THEN Some(40)
    ELSE IF c = 91 THEN Some(93)
    ELSE IF c = 93 THEN Some(91)
    ELSE IF c = 123 THEN Some(125)
    ELSE IF c = 125 THEN Some(123)
    ELSE None

\* Some(TRUE) for an opening delimiter, Some(FALSE) for a closing one
matching_pair_direction(c) ==
    IF c \in {40, 91, 123} THEN Some(TRUE)
    ELSE IF c \in {41, 93, 125} THEN Some(FALSE)
    ELSE None

----------------------------------------------------------------------------
(* BracketCursor *)

\* '(', ')', '{', '}' and 'a'
BracketAlphabet == {40, 41, 123, 125, 97}

BracketTexts == UNION {[1 .. k -> BracketAlphabet] : k \in 0 .. MaxBracketLen}

\* BracketCursor::new(text, pos) on an arbitrary text
InitBracket ==
    /\ text \in BracketTexts
    /\ pos \in 0 .. Len(text)
    /\ CursorFresh
    /\ ClassUnused

EnterBracket(name) ==
    /\ pc = "idle"
    /\ op' = name
    /\ start' = pos
    /\ iters' = 0
    /\ n' = 0
    /\ last' = IF name = "match_pairs" THEN last ELSE None
    /\ UNCHANGED <<text, prop, candidate, keep_word, end>>
    /\ classFrame

InsideBracket ==
    /\ UNCHANGED <<text, op, start, arg, prop, candidate, keep_word, end, last>>
    /\ classFrame

\* the nesting depth with the nested pairs ignored
depth_step_no_nesting(depth, current, c, other) == depth

\* the nesting depth with the two delimiters taken for each other
depth_step_swapped(depth, current, c, other) ==
    IF current = c THEN depth + 1
    ELSE IF current = other THEN depth - 1
    ELSE depth

\* if current == other { n += 1 } else if current == c { n -= 1 }
depth_step(depth, current, c, other) ==
    IF current = other THEN depth + 1
    ELSE IF current = c THEN depth - 1
    ELSE depth

\* match_pairs reporting the offset next_unmatched returned
match_pairs_forward_unadjusted(offset) == Some(offset)

\* match_pairs, forward: Some(offset - 1)
match_pairs_forward(offset) == Some(offset - 1)

\* the value of a scan that found its delimiter, as the called operation returns it
found(o, offset, forward) ==
    IF o = "match_pairs" /\ forward THEN match_pairs_forward(offset) ELSE Some(offset)

match_pairs_call ==
    /\ EnterBracket("match_pairs")
    /\ IF ~HasNext(text, pos)
       THEN ret' = None /\ pc' = "done" /\ UNCHANGED <<pos, arg>>
       ELSE LET c == NextChar(text, pos)
                other == matching_char(c)
            IN
            IF other = None
            THEN ret' = None /\ pc' = "done" /\ UNCHANGED <<pos, arg>>
            ELSE LET left == matching_pair_direction(other[2]) IN
                 IF left = None
                 THEN ret' = None /\ pc' = "done" /\ UNCHANGED <<pos, arg>>
                 ELSE IF left[2]
                 THEN /\ arg' = other[2]
                      /\ pc' = "previous_unmatched_loop"
                      /\ UNCHANGED <<pos, ret>>
                 ELSE /\ pos' = pos + 1
                      /\ arg' = other[2]
                      /\ pc' = "next_unmatched_loop"
                      /\ UNCHANGED ret

next_unmatched_call ==
    /\ EnterBracket("next_unmatched")
    /\ arg' \in BracketAlphabet
    /\ IF matching_char(arg') = None
       THEN ret' = None /\ pc' = "done"
       ELSE pc' = "next_unmatched_loop" /\ UNCHANGED ret
    /\ UNCHANGED pos

\* next_unmatched reading the next codepoint without consuming it
next_unmatched_step_peek ==
    /\ pc = "next_unmatched_loop"
    /\ InsideBracket
    /\ IF HasNext(text, pos)
       THEN LET current == NextChar(text, pos)
                other == matching_char(arg)[2]
            IN
            /\ pos' = pos
            /\ iters' = iters + 1
            /\ IF current = arg /\ n = 0
               THEN /\ ret' = found(op, pos', TRUE)
                    /\ pc' = "done"
                    /\ UNCHANGED n
               ELSE /\ n' = depth_step(n, current, arg, other)
                    /\ pc' = pc
                    /\ UNCHANGED ret
       ELSE /\ ret' = None
            /\ pc' = "done"
            /\ UNCHANGED <<pos, iters, n>>

next_unmatched_step ==
    /\ pc = "next_unmatched_loop"
    /\ InsideBracket
    /\ IF HasNext(text, pos)
       THEN LET current == NextChar(text, pos)
                other == matching_char(arg)[2]
            IN
            /\ pos' = pos + 1
            /\ iters' = iters + 1
            /\ IF current = arg /\ n = 0
               THEN /\ ret' = found(op, pos', TRUE)
                    /\ pc' = "done"
                    /\ UNCHANGED n
               ELSE /\ n' = depth_step(n, current, arg, other)
                    /\ pc' = pc
                    /\ UNCHANGED ret
       ELSE /\ ret' = None
            /\ pc' = "done"
            /\ UNCHANGED <<pos, iters, n>>

previous_unmatched_call ==
    /\ EnterBracket("previous_unmatched")
    /\ arg' \in BracketAlphabet
    /\ IF matching_char(arg') = None
       THEN ret' = None /\ pc' = "done"
       ELSE pc' = "previous_unmatched_loop" /\ UNCHANGED ret
    /\ UNCHANGED pos

previous_unmatched_step ==
    /\ pc = "previous_unmatched_loop"
    /\ InsideBracket
    /\ IF HasPrev(pos)
       THEN LET current == PrevChar(text, pos)
                other == matching_char(arg)[2]
            IN
            /\ pos' = pos - 1
            /\ iters' = iters + 1
            /\ IF current = arg /\ n = 0
               THEN /\ ret' = found(op, pos', FALSE)
                    /\ pc' = "done"
                    /\ UNCHANGED n
               ELSE /\ n' = depth_step(n, current, arg, other)
                    /\ pc' = pc
                    /\ UNCHANGED ret
       ELSE /\ ret' = None
            /\ pc' = "done"
            /\ UNCHANGED <<pos, iters, n>>

\* the cursor is dropped and BracketCursor::new(text, p) makes a fresh one;
\* `last` remembers the call that just completed when it was match_pairs
new_bracket_cursor ==
    /\ pc = "done"
    /\ pos' \in 0 .. Len(text)
    /\ pc' = "idle"
    /\ op' = "none"
    /\ start' = 0
    /\ arg' = 0
    /\ n' = 0
    /\ ret' = Pending
    /\ iters' = 0
    /\ last' = IF op = "match_pairs" THEN <<start, ret>> ELSE None
    /\ UNCHANGED <<text, prop, candidate, keep_word, end>>
    /\ classFrame

BracketOps ==
    \/ match_pairs_call
    \/ next_unmatched_call
    \/ next_unmatched_step
    \/ previous_unmatched_call
    \/ previous_unmatched_step

NextBracket == BracketOps \/ new_bracket_cursor

SpecBracket == InitBracket /\ [][NextBracket]_vars

----------------------------------------------------------------------------
(* Every scan of both cursors, run to completion on one text: the          *)
(* operations are sequential code, so a call that has a step left takes it *)

\* LF, ' ', 'a', '(' and ')'
ScanAlphabet == {10, 32, 97, 40, 41}

ScanTexts == UNION {[1 .. k -> ScanAlphabet] : k \in 0 .. MaxScanLen}

InitScan ==
    /\ text \in ScanTexts
    /\ pos \in 0 .. Len(text)
    /\ CursorFresh
    /\ ClassUnused

NextScan == WordOps \/ BracketOps

SpecScan == InitScan /\ [][NextScan]_vars /\ WF_vars(NextScan)

----------------------------------------------------------------------------
(* Claims about the classifier *)

\* the rule list of the classifier: the listed ASCII punctuation
PunctBlockLow == (33 .. 47) \cup (58 .. 63)

PunctBlockHigh == {64, 91, 92, 93, 94, 96, 123, 124, 125, 126}

RuleClass(c) ==
    IF c = 13 THEN "Cr"
    ELSE IF c = 10 THEN "Lf"
    ELSE IF c <= 32 THEN "Space"
    ELSE IF c \in PunctBlockLow \cup PunctBlockHigh THEN "Punctuation"
    ELSE "Other"

\* C6: get_char_property is total and agrees with the rule list on every
\* codepoint (CR, LF, other codepoints <= U+0020 Space, the listed ASCII
\* punctuation Punctuation, everything else including all non-ASCII Other),
\* and the two 64-bit masks encode exactly the two punctuation sets.
C6_ClassifierAgreesWithRules ==
    /\ cls # NoClass =>
          /\ cls \in CharClassification
          /\ cls = RuleClass(codepoint)
    /\ {i \in 0 .. 63 : Bit(PunctMaskLow, i) = 1} = PunctBlockLow
    /\ {64 + i : i \in {k \in 0 .. 63 : Bit(PunctMaskHigh, k) = 1}} = PunctBlockHigh

\* '9' has been classified, as Other
C6_Witness == codepoint = 57 /\ cls = "Other"

\* C7 as stated: all four pairs (Other,Other), (Punctuation,Punctuation),
\* (CR,CR) and (CR,Space) classify as Interior.
C7_Original_AllFourInterior ==
    (/\ bkind # NoClass
     /\ <<bprev, bnext>> \in {<<"Other", "Other">>, <<"Punctuation", "Punctuation">>,
                              <<"Cr", "Cr">>, <<"Cr", "Space">>})
        => bkind = "Interior"

\* C7 as amended: (Other,Other) and (Punctuation,Punctuation) classify as
\* Interior (the final arm); (CR,CR) is taken by the earlier arm (_, Cr) and
\* (CR,Space) by the earlier arm (_, Space), and both classify as End.
C7_FinalArmPairs ==
    bkind # NoClass =>
        /\ bkind \in WordBoundary
        /\ <<bprev, bnext>> \in {<<"Other", "Other">>, <<"Punctuation", "Punctuation">>}
              => bkind = "Interior"
        /\ <<bprev, bnext>> \in {<<"Cr", "Cr">>, <<"Cr", "Space">>}
              => bkind = "End"

\* the pair (CR,CR) has been classified
C7_Witness == bprev = "Cr" /\ bnext = "Cr" /\ bkind = "End"

----------------------------------------------------------------------------
(* Claims about the cursors *)

\* the class of the codepoint at offset k of text
ClassAt(k) == get_char_property(text[k + 1])

Min(S) == CHOOSE x \in S : \A y \in S : x <= y

Max(S) == CHOOSE x \in S : \A y \in S : x >= y

Returned(name) == pc = "done" /\ op = name

(* C1 *)

CountIn(t, k, ch) == Cardinality({i \in 1 .. k : t[i] = ch})

\* the occurrences of the pair (o, c) in t form a balanced bracket word
BalancedFor(t, o, c) ==
    /\ \A k \in 0 .. Len(t) : CountIn(t, k, o) >= CountIn(t, k, c)
    /\ CountIn(t, Len(t), o) = CountIn(t, Len(t), c)

Balanced(t) ==
    \A pr \in {<<40, 41>>, <<91, 93>>, <<123, 125>>} : BalancedFor(t, pr[1], pr[2])

\* C1: on a text whose brackets are balanced, if match_pairs on a fresh
\* cursor at offset i returned Some(j), then match_pairs on a fresh cursor at
\* offset j returns Some(i).
C1_MatchPairsInvolution ==
    (/\ Balanced(text)
     /\ Returned("match_pairs")
     /\ last # None
     /\ IsSome(last[2])
     /\ start = last[2][2])
        => ret = Some(last[1])

\* "(())": match_pairs at 0 returned Some(3), and at 3 it returns Some(0)
C1_Witness ==
    /\ text = <<40, 40, 41, 41>>
    /\ Returned("match_pairs")
    /\ last = <<0, Some(3)>>
    /\ start = 3
    /\ ret = Some(0)

(* C2 *)

SingleOffsetOps ==
    {"next_boundary", "prev_boundary", "end_boundary", "prev_code_boundary",
     "next_code_boundary", "next_non_blank_char", "prev_deletion_boundary"}

\* C2: after an operation that returns a single offset succeeds, the
\* cursor's position equals the returned offset.
C2_CursorAtReturnedOffset ==
    (/\ pc = "done"
     /\ op \in SingleOffsetOps
     /\ ret[1] \in {"Some", "Offset"})
        => pos = ret[2]

(* C3 *)

\* the pairs next_boundary examines from offset p: a word starts at offset k
StartBoundaries(p) ==
    {k \in (p + 1) .. (Len(text) - 1) :
        classify_boundary(ClassAt(k - 1), ClassAt(k)) \in {"Start", "Both"}}

\* C3 as stated: next_boundary from p returns None whenever the text ends
\* before a Start or Both boundary is found after p, and Some(r) only when
\* one was found, r being the first.
C3_Original_NoneWithoutBoundary ==
    Returned("next_boundary") =>
        /\ StartBoundaries(start) = {} => ret = None
        /\ IsSome(ret) =>
              /\ StartBoundaries(start) # {}
              /\ ret[2] = Min(StartBoundaries(start))

\* C3 as amended: next_boundary from p returns None exactly when p is the
\* end of the text; otherwise it returns Some(r), r being the offset of the
\* first Start or Both boundary after p (the first codepoint of the next
\* word) when there is one, and the length of the text when there is none.
C3_NextBoundaryResult ==
    Returned("next_boundary") =>
        IF start = Len(text)
        THEN ret = None
        ELSE ret = Some(IF StartBoundaries(start) # {}
                        THEN Min(StartBoundaries(start))
                        ELSE Len(text))

\* "a a" from 0: the boundary at 2 is returned
C3_Witness ==
    /\ text = <<97, 32, 97>>
    /\ Returned("next_boundary")
    /\ start = 0
    /\ ret = Some(2)

(* C4 *)

\* [s, e) is a maximal run of Other-classified codepoints
MaximalRun(s, e) ==
    /\ 0 <= s /\ s < e /\ e <= Len(text)
    /\ \A k \in s .. (e - 1) : ClassAt(k) = "Other"
    /\ s = 0 \/ ClassAt(s - 1) # "Other"
    /\ e = Len(text) \/ ClassAt(e) # "Other"

\* C4: select_word from an offset strictly inside a maximal run of Other
\* codepoints returns the bounds of the run, and so does select_word from
\* every other offset within [start, end] of the run.
C4_SelectWordReturnsRun ==
    Returned("select_word") =>
        \A s, e \in 0 .. Len(text) :
            (MaximalRun(s, e) /\ s <= start /\ start <= e) => ret = Pair(s, e)

\* " aa ": select_word from 2, strictly inside the run [1, 3)
C4_Witness ==
    /\ text = <<32, 97, 97, 32>>
    /\ Returned("select_word")
    /\ start = 2
    /\ MaximalRun(1, 3)
    /\ ret = Pair(1, 3)

(* C5 *)

RECURSIVE DepthForward(_, _, _, _)

\* the nesting depth when the forward scan from p reaches offset k
DepthForward(p, k, c, o) ==
    IF k <= p THEN 0
    ELSE LET d == DepthForward(p, k - 1, c, o)
             ch == text[k]
         IN IF ch = o THEN d + 1
            ELSE IF ch = c /\ d > 0 THEN d - 1
            ELSE d

RECURSIVE DepthBackward(_, _, _, _)

\* the nesting depth when the backward scan from p reaches offset k
DepthBackward(p, k, c, o) ==
    IF k >= p - 1 THEN 0
    ELSE LET d == DepthBackward(p, k + 1, c, o)
             ch == text[k + 2]
         IN IF ch = o THEN d + 1
            ELSE IF ch = c /\ d > 0 THEN d - 1
            ELSE d

ForwardHits(p, c, o) ==
    {k \in p .. (Len(text) - 1) : text[k + 1] = c /\ DepthForward(p, k, c, o) = 0}

BackwardHits(p, c, o) ==
    {k \in 0 .. (p - 1) : text[k + 1] = c /\ DepthBackward(p, k, c, o) = 0}

\* the counterpart of each recognized delimiter
Counterpart(c) ==
    CASE c = 40 -> 41 [] c = 41 -> 40
      [] c = 91 -> 93 [] c = 93 -> 91
      [] c = 123 -> 125 [] c = 125 -> 123

Delimiters == {40, 41, 91, 93, 123, 125}

\* C5: for a recognized delimiter c with counterpart o, next_unmatched(c)
\* from p returns Some(k + 1), k the first index >= p holding c at nesting
\* depth 0, and None when there is none; previous_unmatched(c) is the mirror
\* image scanning backward from p and returns Some(k).
C5_UnmatchedScans ==
    /\ (Returned("next_unmatched") /\ arg \in Delimiters) =>
          LET hits == ForwardHits(start, arg, Counterpart(arg)) IN
          ret = IF hits = {} THEN None ELSE Some(Min(hits) + 1)
    /\ (Returned("previous_unmatched") /\ arg \in Delimiters) =>
          LET hits == BackwardHits(start, arg, Counterpart(arg)) IN
          ret = IF hits = {} THEN None ELSE Some(Max(hits))

\* "())": next_unmatched(')') from 0 skips the matched pair and returns 3
C5_Witness ==
    /\ text = <<40, 41, 41>>
    /\ Returned("next_unmatched")
    /\ arg = 41
    /\ start = 0
    /\ ret = Some(3)

(* C8 *)

ForwardLoops ==
    {"next_non_blank_char_loop", "next_boundary_loop", "end_boundary_loop",
     "next_code_boundary_loop", "next_unmatched_loop"}

BackwardLoops ==
    {"prev_boundary_loop", "prev_code_boundary_loop",
     "prev_deletion_boundary_loop", "previous_unmatched_loop"}

\* C8: every scan terminates: each loop iteration consumes exactly one
\* codepoint in the direction of its loop, every step taken in a loop is an
\* iteration or leaves the loop, an operation never executes more iterations
\* than the text has codepoints, and every call reaches its return.
C8_ScansTerminate ==
    /\ [](iters <= Len(text))
    /\ [][(pc # "idle" /\ iters' # iters) =>
             /\ iters' = iters + 1
             /\ pc \in ForwardLoops => pos' = pos + 1
             /\ pc \in BackwardLoops => pos' = pos - 1
             /\ pc \in ForwardLoops \cup BackwardLoops]_vars
    /\ [][(pc \in ForwardLoops \cup BackwardLoops) =>
             (iters' = iters + 1 \/ pc' # pc)]_vars
    /\ <>(pc = "done")

\* prev_deletion_boundary from the end of a text of three codepoints has
\* returned after two iterations
C8_Witness ==
    /\ Returned("prev_deletion_boundary")
    /\ Len(text) = 3
    /\ start = 3
    /\ iters = 2

(* C9 *)

\* at a step of prev_deletion_boundary that consumes a codepoint, none of
\* the rules (a)-(d) stops the scan
NoEarlierRuleStops ==
    /\ pc = "prev_deletion_boundary_loop"
    /\ pos > 0
    /\ LET prop_prev == ClassAt(pos - 1)
           kw == \/ keep_word
                 \/ (prop = "Space" /\ prop_prev = "Space")
                 \/ prop \in {"Lf", "Cr"}
       IN /\ ~(prop_prev = "Lf" /\ prop = "Space")
          /\ ~(kw /\ prop_prev \in {"Punctuation", "Other"})

ScanStops == pc' = "prev_deletion_boundary_ret"

ScanContinues ==
    /\ pc' = "prev_deletion_boundary_loop"
    /\ prop' = ClassAt(pos - 1)
    /\ candidate' = pos'

\* C9 as stated: at such a step the scan stops exactly when
\* boundary(prop_prev, prop) is Start and otherwise continues.
C9_Original_StopsOnStartOnly ==
    [][NoEarlierRuleStops =>
          IF classify_boundary(ClassAt(pos - 1), prop) = "Start"
          THEN ScanStops
          ELSE ScanContinues]_vars

\* C9 as amended: at such a step the scan stops exactly when
\* boundary(prop_prev, prop) is Start or Both, and otherwise (End or
\* Interior) continues with prop := prop_prev and candidate := the offset.
C9_StopsOnStartOrBoth ==
    [][NoEarlierRuleStops =>
          IF classify_boundary(ClassAt(pos - 1), prop) \in {"Start", "Both"}
          THEN ScanStops
          ELSE ScanContinues]_vars

\* the scan has stopped on a pair (Other, Punctuation), of kind Both, with
\* keep_word false
C9_Witness ==
    /\ pc = "prev_deletion_boundary_ret"
    /\ iters >= 1
    /\ ~keep_word
    /\ prop = "Punctuation"
    /\ pos < candidate
    /\ ClassAt(pos) = "Other"

(* C10 *)

\* C10: when the codepoint before the start offset p is LF or CR, or the two
\* codepoints before p are both Space, prev_deletion_boundary returns r <= p
\* and [r, p) holds no Punctuation or Other codepoint.
C10_KeepsWord ==
    (/\ Returned("prev_deletion_boundary")
     /\ start >= 1
     /\ \/ ClassAt(start - 1) \in {"Lf", "Cr"}
        \/ (start >= 2 /\ ClassAt(start - 1) = "Space" /\ ClassAt(start - 2) = "Space"))
        => /\ IsSome(ret)
           /\ ret[2] <= start
           /\ \A k \in ret[2] .. (start - 1) : ClassAt(k) \notin {"Punctuation", "Other"}

\* "a" CR from 2: only the CR is deleted
C10_Witness ==
    /\ text = <<97, 13>>
    /\ Returned("prev_deletion_boundary")
    /\ start = 2
    /\ ret = Some(1)

(* C11 *)

\* C11: from the same offset p, prev_deletion_boundary and prev_boundary
\* return None together, exactly when p = 0, and when they return Some(d)
\* and Some(b), b <= d < p.
C11_DeletionWithinPrevBoundary ==
    (/\ Returned("prev_deletion_boundary")
     /\ last # None
     /\ last[1] = start)
        => /\ (ret = None) <=> (last[2] = None)
           /\ (ret = None) <=> (start = 0)
           /\ ret # None =>
                 /\ IsSome(ret) /\ IsSome(last[2])
                 /\ last[2][2] <= ret[2]
                 /\ ret[2] < start

\* "a  a" from 3: prev_boundary returned Some(0), prev_deletion_boundary
\* returns Some(1)
C11_Witness ==
    /\ text = <<97, 32, 32, 97>>
    /\ Returned("prev_deletion_boundary")
    /\ start = 3
    /\ last = <<3, Some(0)>>
    /\ ret = Some(1)

(* C12 *)

\* C12: the nesting depth n is never negative in any state of the scans,
\* and whenever match_pairs at offset i returns Some(j): a forward match
\* subtracts one from an offset of at least 1, 0 <= j < length, j # i, and
\* the codepoint at j is the counterpart of the codepoint at i.
C12_DepthAndMatchInRange ==
    /\ n >= 0
    /\ (Returned("match_pairs") /\ IsSome(ret)) =>
          /\ start < Len(text)
          /\ text[start + 1] \in Delimiters
          /\ text[start + 1] \in {40, 91, 123} => (pos >= 1 /\ ret[2] = pos - 1)
          /\ 0 <= ret[2]
          /\ ret[2] < Len(text)
          /\ ret[2] # start
          /\ text[ret[2] + 1] = Counterpart(text[start + 1])

\* "(())": match_pairs at 0 has passed the nested pair and returned Some(3)
C12_Witness ==
    /\ text = <<40, 40, 41, 41>>
    /\ Returned("match_pairs")
    /\ start = 0
    /\ last = None
    /\ ret = Some(3)

====
